---- MODULE Spec2Model ----
(***************************************************************************)
(* Model of jira/issue.go: the issue classification predicates, the       *)
(* approval gate, the issue collection (a Go slice of *Issue) with its    *)
(* filtering and story-point aggregation, and the error translation of    *)
(* the transport client's (response, error) pair.                         *)
(*                                                                         *)
(* Go values are modelled as follows.  A pointer to a struct is the       *)
(* empty tuple when nil and the one-element tuple of the struct           *)
(* otherwise; a *Issue is an index into the object table objs, 0 being    *)
(* the nil pointer; an error is a string, "nil" being the nil error.  A   *)
(* call's outcome is a record [kind, value]: kind "return" with the       *)
(* returned value, or kind "panic" when the code dereferences a nil       *)
(* pointer (a Go runtime panic).                                          *)
(***************************************************************************)
EXTENDS Integers, Sequences, FiniteSets, TLC

VARIABLES
    ret,        \* jiraReturnError: the *jira.Response argument
    err,        \* jiraReturnError: the error argument
    result,     \* jiraReturnError: outcome of the call
    approvals,  \* an IssueApprovals value
    approved,   \* outcome of approvals.Approved()
    issue,      \* the jira fields of one Issue (Status, Resolution, Priority, Components)
    call,       \* the last classification call on issue: [op, arg, out]
    objs,       \* Issue objects on the heap: pointer -> [StoryPoints]
    heap,       \* backing arrays of slices: array id -> sequence of *Issue
    colls,      \* the caller's IssueCollection variables: name -> slice header
    last        \* the last collection call: [op, src, dst, fn, before, out]

vars == <<ret, err, result, approvals, approved, issue, call, objs, heap, colls, last>>

errVars  == <<ret, err, result>>
apprVars == <<approvals, approved>>
issueVars == <<issue, call>>
collVars == <<objs, heap, colls, last>>

\* ---------------------------------------------------------------- Go values

NIL == "nil"          \* the nil error
Nil == << >>         \* a nil pointer to a struct
Ptr(x) == << x >>    \* a non-nil pointer to the struct x
Deref(p) == p[1]
NotCalled == [kind |-> "none", value |-> "none"]
Return(v) == [kind |-> "return", value |-> v]
Panic == [kind |-> "panic", value |-> "nil pointer dereference"]

\* ---------------------------------------------------------------- constants of issue.go

ErrorAuthentication == "Access Unauthorized: check basic authentication"

IssueStatusDone == "Done"
IssueStatusObsolete == "Obsolete"
IssueStatusInProgress == "In Progress"
IssueStatusFeatureComplete == "Feature Complete"
IssueStatusCodeReview == "Code Review"
IssueStatusQEReview == "QE Review"
IssueResolutionDone == "Done"
IssuePriorityUnprioritized == "Unprioritized"

StatusForbidden == 403
StatusUnauthorized == 401

\* ---------------------------------------------------------------- jiraReturnError

\* Status codes the transport may deliver.
StatusCodes == {200, 201, 204, 301, 302, 400, 401, 403, 404, 409, 429, 500, 502, 503}

\* A *jira.Response: nil, or a struct embedding *http.Response, itself nil or
\* carrying a StatusCode.
Responses ==
    {Nil} \cup {Ptr([Response |-> Nil])}
          \cup {Ptr([Response |-> Ptr([StatusCode |-> c])]) : c \in StatusCodes}

\* Error values: nil, the sentinel, and two other errors.
Errors == {NIL, ErrorAuthentication, "connection refused", "404 not found"}

\* jiraReturnError as it would be with the http.StatusForbidden test left out.
jiraReturnErrorUnauthorizedOnly(r, e) ==
    IF e = NIL THEN Return(NIL)
    ELSE IF r = Nil THEN Panic
    ELSE IF Deref(r).Response = Nil THEN Panic
    ELSE IF Deref(Deref(r).Response).StatusCode = StatusUnauthorized
         THEN Return(ErrorAuthentication)
    ELSE Return(e)

jiraReturnError(r, e) ==
    IF e = NIL THEN Return(NIL)
    ELSE IF r = Nil THEN Panic                      \* ret.Response on a nil ret
    ELSE IF Deref(r).Response = Nil THEN Panic      \* .StatusCode on a nil *http.Response
    ELSE IF Deref(Deref(r).Response).StatusCode = StatusForbidden
            \/ Deref(Deref(r).Response).StatusCode = StatusUnauthorized
         THEN Return(ErrorAuthentication)
    ELSE Return(e)

ErrInit ==
    /\ ret \in Responses
    /\ err \in Errors
    /\ result = NotCalled

ErrIdle ==
    /\ ret = Nil
    /\ err = NIL
    /\ result = NotCalled

CallJiraReturnError ==
    /\ result = NotCalled
    /\ result' = jiraReturnError(ret, err)
    /\ UNCHANGED <<ret, err, apprVars, issueVars, collVars>>

\* ---------------------------------------------------------------- IssueApprovals

IssueApprovals ==
    [Development : BOOLEAN, Product : BOOLEAN, Quality : BOOLEAN,
     Experience : BOOLEAN, Documentation : BOOLEAN, Support : BOOLEAN]

\* Approved as it would be if the Support gate were required too.
ApprovedWithSupport(a) ==
    a.Development = TRUE /\ a.Product = TRUE /\ a.Quality = TRUE
        /\ a.Experience = TRUE /\ a.Documentation = TRUE /\ a.Support = TRUE

Approved(a) ==
    a.Development = TRUE /\ a.Product = TRUE /\ a.Quality = TRUE
        /\ a.Experience = TRUE /\ a.Documentation = TRUE

ApprInit ==
    /\ approvals \in IssueApprovals
    /\ approved = NotCalled

ApprIdle ==
    /\ approvals = [Development |-> FALSE, Product |-> FALSE, Quality |-> FALSE,
                    Experience |-> FALSE, Documentation |-> FALSE, Support |-> FALSE]
    /\ approved = NotCalled

CallApproved ==
    /\ approved = NotCalled
    /\ approved' = Return(Approved(approvals))
    /\ UNCHANGED <<approvals, errVars, issueVars, collVars>>

\* ---------------------------------------------------------------- Issue classification

MaxComponents == 2

StatusNames ==
    {"", IssueStatusDone, IssueStatusObsolete, IssueStatusInProgress,
     IssueStatusFeatureComplete, IssueStatusCodeReview, IssueStatusQEReview,
     "in progress", "To Do"}
ResolutionNames == {"", IssueResolutionDone, "done", "Won't Do"}
PriorityNames == {"", IssuePriorityUnprioritized, "unprioritized", "Major"}
ComponentNames == {"frontend", "backend"}
ComponentArgs == ComponentNames \cup {"docs"}

\* An optional field of jira.IssueFields: a nil pointer or a pointer to a
\* struct with a Name.
Named(names) == {Nil} \cup {Ptr([Name |-> n]) : n \in names}

SeqsUpTo(S, n) == UNION {[1..k -> S] : k \in 0..n}

\* Fields.Components is a slice: nil, or a (possibly empty) list of components.
ComponentLists ==
    {[isNil |-> TRUE, elems |-> << >>]}
        \cup {[isNil |-> FALSE, elems |-> e] :
                e \in SeqsUpTo({[Name |-> n] : n \in ComponentNames}, MaxComponents)}

Issues ==
    [Status : Named(StatusNames), Resolution : Named(ResolutionNames),
     Priority : Named(PriorityNames), Components : ComponentLists]

IsActive(i) ==
    IF i.Status = Nil THEN Panic                    \* i.Fields.Status.Name
    ELSE LET name == Deref(i.Status).Name IN
         IF name = IssueStatusInProgress THEN Return(TRUE)
         ELSE IF name = IssueStatusFeatureComplete THEN Return(TRUE)
         ELSE IF name = IssueStatusCodeReview THEN Return(TRUE)
         ELSE IF name = IssueStatusQEReview THEN Return(TRUE)
         ELSE Return(FALSE)

\* InStatus as it would be without the nil test on the status field.
InStatusUnguarded(i, status) ==
    IF i.Status = Nil THEN Panic
    ELSE Return(Deref(i.Status).Name = status)

InStatus(i, status) ==
    Return(i.Status # Nil /\ Deref(i.Status).Name = status)

IsResolved(i) ==
    IF i.Resolution # Nil /\ Deref(i.Resolution).Name = IssueResolutionDone
    THEN Return(TRUE)
    ELSE Return(FALSE)

\* IsPrioritized as it would be if an absent priority counted as unprioritized.
IsPrioritizedAbsentFalse(i) ==
    IF i.Priority # Nil
    THEN IF Deref(i.Priority).Name = IssuePriorityUnprioritized THEN Return(FALSE)
         ELSE IF Deref(i.Priority).Name = "" THEN Return(FALSE)
         ELSE Return(TRUE)
    ELSE Return(FALSE)

IsPrioritized(i) ==
    IF i.Priority # Nil
    THEN IF Deref(i.Priority).Name = IssuePriorityUnprioritized THEN Return(FALSE)
         ELSE IF Deref(i.Priority).Name = "" THEN Return(FALSE)
         ELSE Return(TRUE)
    ELSE Return(TRUE)

\* The range loop of HasComponent from position k on.
RECURSIVE ComponentFrom(_, _, _)
ComponentFrom(elems, k, component) ==
    IF k > Len(elems) THEN FALSE
    ELSE IF elems[k].Name = component THEN TRUE
    ELSE ComponentFrom(elems, k + 1, component)

HasComponent(i, component) ==
    IF i.Components.isNil THEN Return(FALSE)
    ELSE Return(ComponentFrom(i.Components.elems, 1, component))

NoCall == [op |-> "none", arg |-> "", out |-> NotCalled]

IssueInit ==
    /\ issue \in Issues
    /\ call = NoCall

IssueIdle ==
    /\ issue = [Status |-> Nil, Resolution |-> Nil, Priority |-> Nil,
                Components |-> [isNil |-> TRUE, elems |-> << >>]]
    /\ call = NoCall

CallIsActive ==
    /\ call' = [op |-> "IsActive", arg |-> "", out |-> IsActive(issue)]
    /\ UNCHANGED <<issue, errVars, apprVars, collVars>>

CallInStatus ==
    /\ \E s \in StatusNames :
          call' = [op |-> "InStatus", arg |-> s, out |-> InStatus(issue, s)]
    /\ UNCHANGED <<issue, errVars, apprVars, collVars>>

CallIsResolved ==
    /\ call' = [op |-> "IsResolved", arg |-> "", out |-> IsResolved(issue)]
    /\ UNCHANGED <<issue, errVars, apprVars, collVars>>

CallIsPrioritized ==
    /\ call' = [op |-> "IsPrioritized", arg |-> "", out |-> IsPrioritized(issue)]
    /\ UNCHANGED <<issue, errVars, apprVars, collVars>>

CallHasComponent ==
    /\ \E c \in ComponentArgs :
          call' = [op |-> "HasComponent", arg |-> c, out |-> HasComponent(issue, c)]
    /\ UNCHANGED <<issue, errVars, apprVars, collVars>>

\* ---------------------------------------------------------------- IssueCollection

NumIssues == 2      \* Issue objects on the heap (aggregation runs)
MaxSize == 3        \* largest size given to NewIssueCollection
MaxCells == 4       \* slots held by the caller's collections altogether

NoStoryPoints == 0

\* A slice header: the backing array (0 when the slice has no capacity), the
\* length and the capacity.
NilSlice == [arr |-> 0, len |-> 0, cap |-> 0]

\* The identifier the allocator gives the next backing array.
Fresh(h) == CHOOSE n \in 1..(Cardinality(DOMAIN h) + 1) :
                /\ n \notin DOMAIN h
                /\ \A m \in 1..(n - 1) : m \in DOMAIN h

\* make([]*Issue, size): a fresh array of size nil pointers.
NewIssueCollection(h, size) ==
    IF size = 0 THEN [heap |-> h, slice |-> NilSlice]
    ELSE LET id == Fresh(h) IN
         [heap  |-> h @@ (id :> [k \in 1..size |-> 0]),
          slice |-> [arr |-> id, len |-> size, cap |-> size]]

\* Capacity of the array append allocates when the slice is full.
GrowCap(cap) == IF cap = 0 THEN 1 ELSE 2 * cap

\* append(s, p): in place when there is spare capacity, else into a fresh,
\* larger array the elements are copied to.
GoAppend(h, s, p) ==
    IF s.len < s.cap
    THEN [heap  |-> [h EXCEPT ![s.arr][s.len + 1] = p],
          slice |-> [s EXCEPT !.len = s.len + 1]]
    ELSE LET id == Fresh(h)
             newcap == GrowCap(s.cap)
             arr == [k \in 1..newcap |->
                        IF k <= s.len THEN h[s.arr][k]
                        ELSE IF k = s.len + 1 THEN p ELSE 0]
         IN [heap  |-> h @@ (id :> arr),
             slice |-> [arr |-> id, len |-> s.len + 1, cap |-> newcap]]

\* The elements a slice shows: the first len cells of its backing array.
View(h, s) == [k \in 1..s.len |-> h[s.arr][k]]

\* The loop of FilterByFunction as it would be if it stopped one element early.
RECURSIVE FilterLoopShort(_, _, _, _, _)
FilterLoopShort(h, c, fn, k, r) ==
    IF k >= c.len THEN [heap |-> h, slice |-> r]
    ELSE LET i == h[c.arr][k] IN
         IF i \in fn
         THEN LET a == GoAppend(h, r, i) IN
              FilterLoopShort(a.heap, c, fn, k + 1, a.slice)
         ELSE FilterLoopShort(h, c, fn, k + 1, r)

\* The range loop of FilterByFunction from position k on; fn is the set of
\* pointers the caller's function returns true for.
RECURSIVE FilterLoop(_, _, _, _, _)
FilterLoop(h, c, fn, k, r) ==
    IF k > c.len THEN [heap |-> h, slice |-> r]
    ELSE LET i == h[c.arr][k] IN
         IF i \in fn
         THEN LET a == GoAppend(h, r, i) IN FilterLoop(a.heap, c, fn, k + 1, a.slice)
         ELSE FilterLoop(h, c, fn, k + 1, r)

\* FilterByFunction as it would be if it filtered in place, r := c[:0],
\* reusing the receiver's backing array.
FilterByFunctionInPlace(h, c, fn) ==
    FilterLoop(h, c, fn, 1, [arr |-> c.arr, len |-> 0, cap |-> c.cap])

FilterByFunction(h, c, fn) ==
    LET r == NewIssueCollection(h, 0) IN FilterLoop(r.heap, c, fn, 1, r.slice)

CollLen(c) == c.len

HasStoryPoints(i) == IF i.StoryPoints > NoStoryPoints THEN TRUE ELSE FALSE

\* The loop of StoryPoints as it would be with points = i.StoryPoints in
\* place of points += i.StoryPoints.
RECURSIVE StoryPointsLoopAssign(_, _, _, _)
StoryPointsLoopAssign(o, elems, k, points) ==
    IF k > Len(elems) THEN Return(points)
    ELSE IF elems[k] = 0 THEN Panic
    ELSE IF HasStoryPoints(o[elems[k]])
         THEN StoryPointsLoopAssign(o, elems, k + 1, o[elems[k]].StoryPoints)
         ELSE StoryPointsLoopAssign(o, elems, k + 1, points)

\* The range loop of StoryPoints from position k on, over the elements elems
\* of the collection; o is the object table.
RECURSIVE StoryPointsLoop(_, _, _, _)
StoryPointsLoop(o, elems, k, points) ==
    IF k > Len(elems) THEN Return(points)
    ELSE IF elems[k] = 0 THEN Panic             \* i.StoryPoints on a nil *Issue
    ELSE IF HasStoryPoints(o[elems[k]])
         THEN StoryPointsLoop(o, elems, k + 1, points + o[elems[k]].StoryPoints)
         ELSE StoryPointsLoop(o, elems, k + 1, points)

StoryPoints(o, h, c) == StoryPointsLoop(o, View(h, c), 1, 0)

\* The caller's collection variables: the source c and two results.
Names == {"c", "r1", "r2"}

\* Story points an Issue may carry.
StoryPointValues == {0, 2, 3}

Pointers == {0} \cup DOMAIN objs

\* The garbage collector.  Arrays no collection refers to are gone, and the
\* arrays that are left are numbered by the first variable, in the order c,
\* r1, r2, that refers to them (a program cannot observe an array's address,
\* only which slices share it).
NameOrder == << "c", "r1", "r2" >>
Owner(cs, id) == CHOOSE k \in 1..Len(NameOrder) :
                    /\ cs[NameOrder[k]].arr = id
                    /\ \A j \in 1..(k - 1) : cs[NameOrder[j]].arr # id
Live(cs) == {cs[n].arr : n \in Names} \ {0}
CollectHeap(h, cs) ==
    [k \in {Owner(cs, id) : id \in Live(cs)} |-> h[cs[NameOrder[k]].arr]]
CollectRefs(cs) ==
    [n \in Names |->
        IF cs[n].arr = 0 THEN cs[n] ELSE [cs[n] EXCEPT !.arr = Owner(cs, cs[n].arr)]]

Cells(cs) == cs["c"].len + cs["r1"].len + cs["r2"].len

InBounds(cs) == Cells(cs) <= MaxCells

NoOp == [op |-> "none", src |-> "", dst |-> "", fn |-> {}, before |-> << >>,
         out |-> NotCalled]

\* The end of every step: the new heap, garbage collected, the caller's
\* variables and the record of the call.
Commit(h, cs, l) ==
    /\ InBounds(cs)
    /\ heap' = CollectHeap(h, cs)
    /\ colls' = CollectRefs(cs)
    /\ last' = l
    /\ UNCHANGED <<objs, errVars, apprVars, issueVars>>

CollInit ==
    /\ heap = << >>
    /\ colls = [n \in Names |-> NilSlice]
    /\ last = NoOp

\* The object table of the filtering runs: one issue (and the nil pointer).
FilterObjs == << [StoryPoints |-> 3] >>

CollIdle ==
    /\ objs = FilterObjs
    /\ CollInit

AggInit ==
    /\ objs \in [1..NumIssues -> [StoryPoints : StoryPointValues]]
    /\ CollInit

\* c = NewIssueCollection(size)
New ==
    /\ last = NoOp
    /\ \E size \in 0..MaxSize :
        LET m == NewIssueCollection(heap, size) IN
        Commit(m.heap, [colls EXCEPT !["c"] = m.slice],
               [NoOp EXCEPT !.op = "New", !.dst = "c"])

\* colls[n][k] = p
Store ==
    \E n \in Names : \E k \in 1..colls[n].len : \E p \in Pointers :
        Commit([heap EXCEPT ![colls[n].arr][k] = p], colls,
               [NoOp EXCEPT !.op = "Store", !.dst = n])

\* colls[n] = append(colls[n], p)
AppendTo ==
    \E n \in Names : \E p \in Pointers :
        LET a == GoAppend(heap, colls[n], p) IN
        Commit(a.heap, [colls EXCEPT ![n] = a.slice],
               [NoOp EXCEPT !.op = "Append", !.dst = n])

\* colls[d] = colls[n].FilterByFunction(fn)
Filter ==
    \E n \in Names : \E d \in Names : \E fn \in SUBSET Pointers :
        LET f == FilterByFunction(heap, colls[n], fn) IN
        Commit(f.heap, [colls EXCEPT ![d] = f.slice],
               [op |-> "FilterByFunction", src |-> n, dst |-> d, fn |-> fn,
                before |-> View(heap, colls[n]),
                out |-> Return(View(f.heap, f.slice))])

\* colls[n].Len()
CallLen ==
    \E n \in Names :
        Commit(heap, colls,
               [NoOp EXCEPT !.op = "Len", !.src = n,
                            !.before = View(heap, colls[n]),
                            !.out = Return(CollLen(colls[n]))])

\* colls[n].StoryPoints()
CallStoryPoints ==
    \E n \in Names :
        Commit(heap, colls,
               [NoOp EXCEPT !.op = "StoryPoints", !.src = n,
                            !.before = View(heap, colls[n]),
                            !.out = StoryPoints(objs, heap, colls[n])])

\* ---------------------------------------------------------------- specifications

\* Error translation of one (response, error) pair.
InitErr == ErrInit /\ ApprIdle /\ IssueIdle /\ CollIdle
NextErr == CallJiraReturnError
SpecErr == InitErr /\ [][NextErr]_vars

\* The approval gate of one IssueApprovals value.
InitAppr == ErrIdle /\ ApprInit /\ IssueIdle /\ CollIdle
NextAppr == CallApproved
SpecAppr == InitAppr /\ [][NextAppr]_vars

\* The classification predicates on one Issue.
InitIssue == ErrIdle /\ ApprIdle /\ IssueInit /\ CollIdle
NextIssue ==
    \/ CallIsActive
    \/ CallInStatus
    \/ CallIsResolved
    \/ CallIsPrioritized
    \/ CallHasComponent
SpecIssue == InitIssue /\ [][NextIssue]_vars

\* A caller that builds, fills, filters and extends collections.
Init == ErrIdle /\ ApprIdle /\ IssueIdle /\ CollIdle
Next ==
    \/ New
    \/ Store
    \/ AppendTo
    \/ Filter
Spec == Init /\ [][Next]_vars

\* A caller that builds and fills one collection of issues and aggregates it.
InitAgg == ErrIdle /\ ApprIdle /\ IssueIdle /\ AggInit
NextAgg ==
    \/ New
    \/ Store
    \/ CallLen
    \/ CallStoryPoints
SpecAgg == InitAgg /\ [][NextAgg]_vars

\* ---------------------------------------------------------------- properties

\* The status code of the response, when the response carries one.
HasStatusCode == ret # Nil /\ Deref(ret).Response # Nil
StatusCode == Deref(Deref(ret).Response).StatusCode

\* C3: jiraReturnError returns nil when err is nil, whatever the response;
\* with a non-nil err it returns ErrorAuthentication when the status code is
\* 401 or 403 and the original err for every other status code.
C3_ErrorTranslation ==
    result.kind # "none" =>
        /\ err = NIL => result = Return(NIL)
        /\ (err # NIL /\ HasStatusCode) =>
              IF StatusCode \in {401, 403}
              THEN result = Return(ErrorAuthentication)
              ELSE result = Return(err)

C3_Witness ==
    /\ result.kind = "return"
    /\ err = "connection refused"
    /\ HasStatusCode
    /\ StatusCode = 403
    /\ result.value = ErrorAuthentication

\* C10: for every (response, error) pair, a nil response or a response
\* without an HTTP response included, jiraReturnError returns nil,
\* ErrorAuthentication or the original error, and does not panic.
C10_NeverPanics ==
    result.kind # "none" =>
        /\ result.kind = "return"
        /\ result.value \in {NIL, ErrorAuthentication, err}

FiveGates == {"Development", "Product", "Quality", "Experience", "Documentation"}

\* C4: Approved() is true iff Development, Product, Quality, Experience and
\* Documentation are all true, whatever the Support gate is.
C4_ApprovedFiveGates ==
    approved.kind # "none" =>
        /\ approved.kind = "return"
        /\ approved.value = (\A g \in FiveGates : approvals[g])
        /\ approved.value = Approved([approvals EXCEPT !.Support = ~approvals.Support])

C4_Witness ==
    /\ approved.kind = "return"
    /\ \A g \in FiveGates : approvals[g]
    /\ ~approvals.Support
    /\ approved.value = TRUE

\* C5: IsPrioritized() is true when the priority is absent, false when it is
\* present with the name "" or Unprioritized, and true for every other name.
C5_IsPrioritized ==
    call.op = "IsPrioritized" =>
        /\ call.out.kind = "return"
        /\ call.out.value =
              IF issue.Priority = Nil THEN TRUE
              ELSE Deref(issue.Priority).Name \notin {"", "Unprioritized"}

C5_Witness ==
    /\ call.op = "IsPrioritized"
    /\ issue.Priority = Nil
    /\ call.out.kind = "return"
    /\ call.out.value = TRUE

ActiveNames == {"In Progress", "Feature Complete", "Code Review", "QE Review"}

\* C6: IsActive() returns true when the status name is In Progress, Feature
\* Complete, Code Review or QE Review and false for every other issue, an
\* issue whose status field is unset included.
C6_IsActive ==
    call.op = "IsActive" =>
        /\ call.out.kind = "return"
        /\ call.out.value =
              (issue.Status # Nil /\ Deref(issue.Status).Name \in ActiveNames)

\* C7: InStatus(s), IsResolved() and HasComponent(name) return false when the
\* status, the resolution or the components list is absent, and otherwise
\* true iff the field's name equals s, Done, or name for some list entry.
C7_AbsentFieldIsFalse ==
    /\ call.op = "InStatus" =>
          call.out = Return(IF issue.Status = Nil THEN FALSE
                            ELSE Deref(issue.Status).Name = call.arg)
    /\ call.op = "IsResolved" =>
          call.out = Return(IF issue.Resolution = Nil THEN FALSE
                            ELSE Deref(issue.Resolution).Name = "Done")
    /\ call.op = "HasComponent" =>
          call.out = Return(IF issue.Components.isNil THEN FALSE
                            ELSE \E k \in DOMAIN issue.Components.elems :
                                    issue.Components.elems[k].Name = call.arg)

C7_Witness ==
    /\ call.op = "InStatus"
    /\ issue.Status = Nil
    /\ issue.Resolution = Nil
    /\ issue.Components.isNil
    /\ call.out.kind = "return"
    /\ call.out.value = FALSE

\* The elements a caller's variable shows.
ViewOf(n) == View(heap, colls[n])

Selected(elems, fn) == LET Keep(i) == i \in fn IN SelectSeq(elems, Keep)

\* C1: FilterByFunction returns exactly the elements the function is true
\* for, as often and in the order they occur in the receiver; an always-true
\* function gives the receiver's elements, an always-false one a collection
\* of length 0.
C1_FilterExact ==
    last.op = "FilterByFunction" =>
        /\ last.out.kind = "return"
        /\ last.out.value = Selected(last.before, last.fn)
        /\ ViewOf(last.dst) = last.out.value
        /\ last.fn = Pointers => last.out.value = last.before
        /\ last.fn = {} => CollLen(colls[last.dst]) = 0

C1_Witness ==
    /\ last.op = "FilterByFunction"
    /\ last.src # last.dst
    /\ last.before = << 1, 0, 1 >>
    /\ last.fn = {0}
    /\ last.out.value = << 0 >>

\* C8: FilterByFunction changes neither its receiver, nor any other
\* collection, nor any Issue; appending to a collection or overwriting one of
\* its slots changes no other collection.
C8_Independent ==
    [][ /\ last'.op = "FilterByFunction" =>
              /\ objs' = objs
              /\ \A n \in Names \ {last'.dst} : ViewOf(n)' = ViewOf(n)
        /\ last'.op \in {"Append", "Store"} =>
              \A n \in Names \ {last'.dst} : ViewOf(n)' = ViewOf(n) ]_vars

C8_Witness ==
    /\ last.op = "Store"
    /\ last.dst = "r1"
    /\ ViewOf("c") = << 1, 0 >>
    /\ ViewOf("r1") = << 0 >>
    /\ ViewOf("r2") = << 1 >>

RECURSIVE SumOver(_, _)
SumOver(S, f) ==
    IF S = {} THEN 0
    ELSE LET x == CHOOSE y \in S : TRUE IN f[x] + SumOver(S \ {x}, f)

Occurrences(elems, p) == Cardinality({k \in DOMAIN elems : elems[k] = p})

\* What each Issue adds to a total each time it occurs: its story points
\* when it has story points, else 0.
Contribution ==
    [p \in DOMAIN objs |->
        IF objs[p].StoryPoints > NoStoryPoints THEN objs[p].StoryPoints ELSE 0]

Total(elems) ==
    SumOver(DOMAIN objs, [p \in DOMAIN objs |-> Occurrences(elems, p) * Contribution[p]])

Populated(elems) == \A k \in DOMAIN elems : elems[k] # 0

\* C2: on a collection of populated issues StoryPoints() returns the sum of
\* StoryPoints over the elements that have story points, whatever the order
\* of the elements.
C2_StoryPointsSum ==
    (last.op = "StoryPoints" /\ Populated(last.before)) =>
        /\ last.out.kind = "return"
        /\ last.out.value = Total(last.before)

C2_Witness ==
    /\ last.op = "StoryPoints"
    /\ Len(last.before) = 3
    /\ Populated(last.before)
    /\ \E k \in DOMAIN last.before : objs[last.before[k]].StoryPoints = 0
    /\ \E k \in DOMAIN last.before : objs[last.before[k]].StoryPoints = 3
    /\ last.out.kind = "return"
    /\ last.out.value = 6

\* C9: on a collection that holds absent slots Len() counts the absent slots
\* too, and StoryPoints() returns the sum in which every absent slot adds 0.
C9_AbsentSlots ==
    /\ last.op = "Len" => last.out = Return(Len(last.before))
    /\ (last.op = "StoryPoints" /\ ~Populated(last.before)) =>
          /\ last.out.kind = "return"
          /\ last.out.value = Total(last.before)

====
